---- MODULE Spec2Model ----
(***************************************************************************)
(* State-machine model of NNMF.py: the batch script that factorizes an     *)
(* imaging dataset (one image per m/z bin) with the XRay column-selection  *)
(* loop and then aggregates per-bin noise statistics.                      *)
(*                                                                         *)
(* Numbers.  Raw intensities are integers.  np.percentile(img, 99)         *)
(* interpolates with weight 99/100, so cleaned intensities are held in     *)
(* units of 1/Percent (exact).  Quantities the script computes in floating *)
(* point (NNLS coefficients, square roots of the noise) are held in fixed  *)
(* point, rounded to the nearest unit.  Scores are exact fractions n/d     *)
(* with the IEEE reading of d = 0 (+inf, -inf, nan).                       *)
(*                                                                         *)
(* Indices.  Python indexes from 0, the model from 1: position k of a      *)
(* numpy array is position k + 1 here.                                     *)
(***************************************************************************)
EXTENDS Integers, Sequences, FiniteSets, TLC

\* ------------------------------------------------------------ constants

\* args.rank < 10 is rejected.
RankFloor == 10

\* bins per chunk of the dask array.
K == 100

\* number of brightest bins kept for column selection.
N_bright == 500

\* np.percentile(img, 99)
PercentileQ == 99

\* a percentile is given in hundredths.
Percent == 100

\* columns solved per call of nnlsm_blockpivot in nnls_frob.
NnlsBatch == 100

\* the relative residual is printed every 5 columns.
ReportEvery == 5

\* the score forced onto the columns already selected.
ExcludedScore == -1

\* ---------------------------------------------------------------- bounds

\* raw intensities of the image store range over -1 .. MaxVal.
MaxVal == 1

\* a probe entry is one of 1/(ProbeLevels+1) .. ProbeLevels/(ProbeLevels+1).
ProbeLevels == 2

\* fixed-point units per 1 of an NNLS coefficient.
CoefScale == 1000

\* fixed-point units per 1 of a square root of the noise.
SqrtScale == 1000

\* (height, width) of the images of the store.
Shape == <<1, 2>>

\* the values of --rank tried: one the rank check rejects, the least it
\* accepts, and one more.
RankChoices == {RankFloor - 1, RankFloor, RankFloor + 1}

\* the lengths of the m/z axis tried: too short for any accepted rank, just
\* long enough, and one bin more than a chunk holds.
AxisLengths == {1, 3, RankFloor, K + 1}

\* ------------------------------------------------------ sequences, sums

Range(s) == {s[k] : k \in DOMAIN s}

RECURSIVE SumOver(_, _, _)
\* s[from] + ... + s[to], by halves.
SumOver(s, from, to) ==
    IF from > to THEN 0
    ELSE IF from = to THEN s[from]
    ELSE LET mid == (from + to) \div 2
         IN  SumOver(s, from, mid) + SumOver(s, mid + 1, to)

\* numpy sum of a vector.
Sum(s) == SumOver(s, 1, Len(s))

Dot(u, v) == Sum([k \in 1..Len(u) |-> u[k] * v[k]])

RECURSIVE Concat(_, _)
Concat(ss, n) == IF n = 0 THEN <<>> ELSE Concat(ss, n - 1) \o ss[n]

\* the same sequence, its entries computed once.
Seq1(s) == s \o <<>>

Reverse(s) == [k \in 1..Len(s) |-> s[Len(s) + 1 - k]]

Min2(a, b) == IF a < b THEN a ELSE b

Max2(a, b) == IF a > b THEN a ELSE b

\* a / b rounded to the nearest integer (b > 0).
RoundDiv(a, b) == (2 * a + b) \div (2 * b)

RECURSIVE ISqrt(_)
\* the integer part of the square root.
ISqrt(n) ==
    IF n < 2 THEN n
    ELSE LET s == 2 * ISqrt(n \div 4)
         IN  IF (s + 1) * (s + 1) <= n THEN s + 1 ELSE s

\* numpy sort of a vector.
Sorted(s) == SortSeq(s, LAMBDA a, b : a < b)

\* toolz.partition_all(size, range(n)): the index blocks, in order.
PartitionAll(size, n) ==
    [c \in 1..((n + size - 1) \div size) |->
        [k \in 1..Min2(size, n - (c - 1) * size) |-> (c - 1) * size + k]]

\* ------------------------------------------------------------ the images

\* img[img < 0] = 0
ClampNegative(img) == [k \in 1..Len(img) |-> Max2(img[k], 0)]

\* np.percentile(img, 99) of a non-empty image, in units of 1/Percent: the
\* value at position 0.99 * (n - 1) of the sorted pixels, interpolated
\* linearly between its two neighbours.
Percentile(img) ==
    LET v   == Sorted(img)
        pos == PercentileQ * (Len(img) - 1)
        lo  == pos \div Percent
        fr  == pos % Percent
    IN  IF fr = 0 THEN Percent * v[lo + 1]
        ELSE Percent * v[lo + 1] + fr * (v[lo + 2] - v[lo + 1])

\* img[img > perc] = perc, the image now in units of 1/Percent.
ClampPercentile(img) ==
    LET perc == Percentile(img)
    IN  [k \in 1..Len(img) |-> Min2(Percent * img[k], perc)]

\* imzb.get_mz_image(mz, ppm): the store's image of the bin, flattened row
\* by row.  The bin (mz, ppm) of the axis is looked up by its mass.
get_mz_image(store, bin) == store.images[bin[1]]

\* the body of the loop of get_mz_images: one cleaned image.
CleanedImage(store, bin) == ClampPercentile(ClampNegative(get_mz_image(store, bin)))

\* get_mz_images(mz_axis_chunk): the cleaned images of the chunk, in order.
get_mz_images(store, mz_axis_chunk) ==
    [n \in 1..Len(mz_axis_chunk) |-> CleanedImage(store, mz_axis_chunk[n])]

\* the noise pass cleaning the image as get_mz_images does.
OrigImageClipped(store, bin) == CleanedImage(store, bin)

\* the image the noise pass fetches and clamps, in units of 1/Percent.
OrigImage(store, bin) ==
    LET img == ClampNegative(get_mz_image(store, bin))
    IN  [k \in 1..Len(img) |-> Percent * img[k]]

\* list(partition_all(K, mz_axis))
PartitionAxis(axis) ==
    LET blocks == PartitionAll(K, Len(axis))
    IN  [c \in 1..Len(blocks) |-> [k \in 1..Len(blocks[c]) |-> axis[blocks[c][k]]]]

\* one chunk's part of arr.sum(axis=(1, 2)): the sum of each image of the chunk.
ChunkSum(store, mz_axis_chunk) ==
    LET imgs == get_mz_images(store, mz_axis_chunk)
    IN  [n \in 1..Len(imgs) |-> Sum(imgs[n])]

\* argsort: the positions ordered by ascending value.  Equal values are kept
\* in position order.
ArgSort(s) ==
    SortSeq([k \in 1..Len(s) |-> k],
            LAMBDA a, b : s[a] < s[b] \/ (s[a] = s[b] /\ a < b))

\* image_intensities.argsort()[::-1][:N_bright]
BrightPositions(intensities) ==
    LET desc == Reverse(ArgSort(intensities))
    IN  [k \in 1..Min2(N_bright, Len(desc)) |-> desc[k]]

\* ------------------------------------------------------------ the scores

\* a score n/d with d >= 0, read as IEEE division reads it: n/0 is +inf for
\* n > 0, -inf for n < 0 and nan for n = 0.
IsNaN(s) == s.d = 0 /\ s.n = 0

RECURSIVE FracLess(_, _, _, _)
\* n1/d1 < n2/d2 for d1, d2 > 0, exactly, by integer parts and remainders.
FracLess(n1, d1, n2, d2) ==
    LET q1 == n1 \div d1
        q2 == n2 \div d2
        r1 == n1 % d1
        r2 == n2 % d2
    IN  IF q1 # q2 THEN q1 < q2
        ELSE IF r2 = 0 THEN FALSE
        ELSE IF r1 = 0 THEN TRUE
        ELSE FracLess(d2, r2, d1, r1)

\* a < b for two scores that are not nan.
ScoreLess(a, b) ==
    IF a.d = 0 THEN a.n < 0 /\ ~(b.d = 0 /\ b.n < 0)
    ELSE IF b.d = 0 THEN b.n > 0
    ELSE FracLess(a.n, a.d, b.n, b.d)

\* scores = (R * x).sum(axis=0), R and x in units of 1/Percent.
ColumnSums(Rm, xm) == Seq1([j \in 1..Len(xm) |-> Dot(Rm[j], xm[j])])

\* scores /= p.T.dot(x)
\* The probe entry p[k] stands for p[k] / (ProbeLevels + 1).
Scores(sums, xm, probe) ==
    Seq1([j \in 1..Len(xm) |->
            [n |-> (ProbeLevels + 1) * sums[j],
             d |-> Percent * Dot(probe, xm[j])]])

\* scores[cols] = -1
Exclude(scores, selected) ==
    LET chosen == Range(selected)
    IN  Seq1([j \in 1..Len(scores) |->
                IF j \in chosen THEN [n |-> ExcludedScore, d |-> 1] ELSE scores[j]])

RECURSIVE FirstMax(_, _, _)
\* the first position among from..to that holds the greatest of s[from..to],
\* by halves.
FirstMax(s, from, to) ==
    IF from = to THEN from
    ELSE LET mid   == (from + to) \div 2
             left  == FirstMax(s, from, mid)
             right == FirstMax(s, mid + 1, to)
         IN  IF ScoreLess(s[left], s[right]) THEN right ELSE left

\* np.argmax(scores): the first nan if there is one, else the first position
\* that holds the maximum.
ArgMax(scores) ==
    LET nans == {j \in 1..Len(scores) : IsNaN(scores[j])}
    IN  IF nans # {} THEN CHOOSE j \in nans : \A m \in nans : j <= m
        ELSE FirstMax(scores, 1, Len(scores))

\* ---------------------------------------------------------------- NNLS

Cross(u, v) == u[1] * v[2] - u[2] * v[1]

IsZero(u) == \A k \in 1..Len(u) : u[k] = 0

\* For images of two pixels the cone of the anchors is the angle between
\* its two outermost non-zero anchors: lo, the first of those nearest to the
\* axis of pixel 1, and hi, the first of those nearest to the axis of pixel 2
\* (both 0 when every anchor is zero).
Outermost(anchors) ==
    LET nz  == {m \in 1..Len(anchors) : ~IsZero(anchors[m])}
        los == {m \in nz : \A q \in nz : Cross(anchors[m], anchors[q]) >= 0}
        his == {m \in nz : \A q \in nz : Cross(anchors[q], anchors[m]) >= 0}
    IN  IF nz = {} THEN [lo |-> 0, hi |-> 0]
        ELSE [lo |-> CHOOSE m \in los : \A q \in los : m <= q,
              hi |-> CHOOSE m \in his : \A q \in his : m <= q]

\* One column of nnlsm_blockpivot(anchors, targets)[0]: non-negative
\* coefficients h, in fixed point, with anchors . h the point of the cone of
\* the anchors nearest to b: b inside the cone is the combination of lo and
\* hi, b outside it is projected on the nearer of the two.
NnlsColumn(anchors, cone, b) ==
    LET zero == [m \in 1..Len(anchors) |-> 0]
        onto(m) == [zero EXCEPT ![m] =
                       RoundDiv(CoefScale * Dot(b, anchors[m]),
                                Dot(anchors[m], anchors[m]))]
        lo   == anchors[cone.lo]
        hi   == anchors[cone.hi]
        span == Cross(lo, hi)
    IN  IF cone.lo = 0 \/ IsZero(b) THEN zero
        ELSE IF Cross(lo, b) < 0 THEN onto(cone.lo)
        ELSE IF Cross(b, hi) < 0 THEN onto(cone.hi)
        ELSE IF span = 0 THEN onto(cone.lo)
        ELSE [zero EXCEPT ![cone.lo] = RoundDiv(CoefScale * Cross(b, hi), span),
                          ![cone.hi] = RoundDiv(CoefScale * Cross(lo, b), span)]

\* nnlsm_blockpivot(x_sel, residuals)[0]: one column of coefficients per
\* target column.
nnlsm_blockpivot(anchors, targets) ==
    LET cone == Outermost(anchors)
    IN  [j \in 1..Len(targets) |-> NnlsColumn(anchors, cone, targets[j])]

\* nnls_frob(x, anchors): the targets are solved in batches of NnlsBatch
\* columns and each batch is written to its slice of the result.
nnls_frob(xm, anchors) ==
    LET batches == PartitionAll(NnlsBatch, Len(xm))
        parts   == [c \in 1..Len(batches) |->
                       nnlsm_blockpivot(anchors,
                           [k \in 1..Len(batches[c]) |-> xm[batches[c][k]]])]
    IN  Concat(parts, Len(parts))

\* x[:, cols]
Columns(xm, selected) == Seq1([k \in 1..Len(selected) |-> xm[selected[k]]])

\* W.dot(h) for one column h of coefficients, in units of 1/Percent.
MatVec(Wm, h) ==
    [pix \in 1..(Shape[1] * Shape[2]) |->
        RoundDiv(Sum([m \in 1..Len(Wm) |-> h[m] * Wm[m][pix]]), CoefScale)]

\* R = x - da.dot(x[:, cols], H)
Residual(xm, anchors, Hm) ==
    [j \in 1..Len(xm) |->
        LET approx == MatVec(anchors, Hm[j])
        IN  [pix \in 1..Len(xm[j]) |-> xm[j][pix] - approx[pix]]]

\* da.vnorm(m, 'fro') squared.
SquaredNorm(m) == Sum([j \in 1..Len(m) |-> Dot(m[j], m[j])])

\* ------------------------------------------------------ noise statistics

\* noise = diff[diff >= 0]
NonNegativeEntries(diff) == SelectSeq(diff, LAMBDA v : v >= 0)

\* noise = diff[diff > 0]
PositiveEntries(diff) == SelectSeq(diff, LAMBDA v : v > 0)

\* np.sqrt of a value held in units of 1/Percent, in fixed point.
SqrtFixed(v) == ISqrt((v * SqrtScale * SqrtScale) \div Percent)

\* np.median of a non-empty vector: the middle value, or the mean of the
\* two middle values.
Median(s) ==
    LET v == Sorted(s)
        n == Len(s)
    IN  IF n % 2 = 1 THEN v[(n + 1) \div 2]
        ELSE RoundDiv(v[n \div 2] + v[n \div 2 + 1], 2)

\* np.std of a non-empty vector: the root of the mean squared deviation.
Std(s) ==
    LET n == Len(s)
    IN  ISqrt((n * Dot(s, s) - Sum(s) * Sum(s)) \div (n * n))

\* +infinity and the finite entries of min_intensities.
Infinite == [fin |-> FALSE, val |-> 0]

Finite(v) == [fin |-> TRUE, val |-> v]

\* np.minimum(current, v) for an entry of min_intensities.
Minimum(current, v) ==
    IF current.fin /\ current.val <= v THEN current ELSE Finite(v)

\* the update without the mask.
UpdateMinUnmasked(mins, orig) ==
    [pix \in 1..Len(mins) |-> Minimum(mins[pix], orig[pix])]

\* mask = orig_img > 0
\* min_intensities[mask] = np.minimum(min_intensities[mask], orig_img[mask])
UpdateMin(mins, orig) ==
    [pix \in 1..Len(mins) |->
        IF orig[pix] > 0 THEN Minimum(mins[pix], orig[pix]) ELSE mins[pix]]

\* the three entries one bin appends to noise_stats.
NoiseEntry(diff) ==
    LET noise == PositiveEntries(diff)
        roots == [k \in 1..Len(noise) |-> SqrtFixed(noise[k])]
        prob  == [num |-> Len(noise), den |-> Shape[1] * Shape[2]]
    IN  IF prob.num > 0
        THEN [prob |-> prob, sqrt_median |-> Median(roots), sqrt_std |-> Std(roots)]
        ELSE [prob |-> prob, sqrt_median |-> 0, sqrt_std |-> 0]

\* ------------------------------------------------------------- the state

VARIABLES
    args,               \* the parsed command line: [rank]
    imzb,               \* the image store: bounds (tenths of m/z), shape, images
    pc,                 \* the statement the script is at
    exit_status,        \* <<>> while running, <<status>> once the process ended
    raised,             \* the assertion that failed, "" if none
    stdout,             \* the error message of the rank check
    opened,             \* ImzbReader(args.input) was constructed
    mz_axis,            \* the bins (mz, ppm), ascending
    started,            \* chunk tasks handed to a worker
    partial,            \* finished chunk task -> its per-bin sums
    order,              \* the chunk tasks in the order they finished
    image_intensities,  \* per-bin sum of the cleaned image
    bright_images_pos,  \* bins by descending intensity, at most N_bright
    x,                  \* the working matrix, one column per bright bin
    cols,               \* the selected columns of x
    H,                  \* coefficients of x on the selected columns
    R,                  \* the residual x - x[:, cols] . H
    reports,            \* the residual reports printed every 5 columns
    W,                  \* the basis x[:, cols]
    H_full,             \* coefficients of every bin on W
    orig_img,           \* the image the noise pass fetched last
    noise_stats,        \* [prob, sqrt_median, sqrt_std], one entry per bin
    min_intensities,    \* per pixel, the least positive intensity seen
    output              \* <<>>, or <<the archive written>>

vars == <<args, imzb, pc, exit_status, raised, stdout, opened, mz_axis, started,
          partial, order, image_intensities, bright_images_pos, x, cols, H, R,
          reports, W, H_full, orig_img, noise_stats, min_intensities, output>>

NPix == Shape[1] * Shape[2]

RawImages == [1..NPix -> -1..MaxVal]

\* (min_mz, max_mz) in tenths: the first fails mz_range[0] > 0, the second
\* fails mz_range[1] > 1, the third passes both.
MzBounds == {<<1, 20>>, <<5, 8>>, <<10, 20>>}

\* p = da.random.random(x.shape[0], ...): each entry a level of (0, 1).
Probes == [1..NPix -> 1..ProbeLevels]

\* r = args.rank
r == args.rank

mz_axis_chunks == PartitionAxis(mz_axis)

\* The store holds two images, one at the odd bins and one at the even bins.
Init ==
    /\ args \in [rank : RankChoices]
    /\ \E bounds \in MzBounds, n \in AxisLengths, odd \in RawImages, even \in RawImages :
           imzb = [min_mz |-> bounds[1], max_mz |-> bounds[2],
                   height |-> Shape[1], width |-> Shape[2],
                   images |-> [b \in 1..n |-> IF b % 2 = 1 THEN odd ELSE even]]
    /\ pc = "rank"
    /\ exit_status = <<>>
    /\ raised = ""
    /\ stdout = <<>>
    /\ opened = FALSE
    /\ mz_axis = <<>>
    /\ started = {}
    /\ partial = <<>>
    /\ order = <<>>
    /\ image_intensities = <<>>
    /\ bright_images_pos = <<>>
    /\ x = <<>>
    /\ cols = <<>>
    /\ H = <<>>
    /\ R = <<>>
    /\ reports = <<>>
    /\ W = <<>>
    /\ H_full = <<>>
    /\ orig_img = <<>>
    /\ noise_stats = [prob |-> <<>>, sqrt_median |-> <<>>, sqrt_std |-> <<>>]
    /\ min_intensities = <<>>
    /\ output = <<>>

\* --------------------------------------------------------------- actions

\* the check with the floor itself rejected.
RankRejectedInclusive(rank) == rank <= RankFloor

\* if args.rank < 10
RankRejected(rank) == rank < RankFloor

\* the loop stopping one column short.
SelectionStopsShort(selected, rank) == Len(selected) < rank - 1

\* while len(cols) < r
SelectionContinues(selected, rank) == Len(selected) < rank

\* the assertion left out.
NeverAsserted(best_col, selected) == FALSE

\* the failing case of: assert best_col not in cols
AlreadySelected(best_col, selected) == best_col \in Range(selected)

\* the loop ending one bin early.
NoiseFinishedEarly(stats, axis) == Len(stats.prob) + 1 >= Len(axis)

\* the for loop over enumerate(mz_axis) has run out.
NoiseFinished(stats, axis) == Len(stats.prob) >= Len(axis)

\* generate_mz_axis(mz_range[0], mz_range[1], instrument, 1.0): the bins of
\* the store's mass range, ascending; bin b has mass b and tolerance 1.
generate_mz_axis(store) == [b \in 1..Len(store.images) |-> <<b, 1>>]

\* the chunks' sums concatenated in the order the tasks finished.
GatherAsFinished(parts, finished) ==
    Concat([k \in 1..Len(finished) |-> parts[finished[k]]], Len(finished))

\* the concatenation of the chunks' sums along the bin axis, by chunk index.
Gather(parts, finished) == Concat([c \in 1..Len(finished) |-> parts[c]], Len(finished))

\* an uncaught AssertionError, or sys.exit(1): the process ends with status 1.
Die ==
    /\ pc' = "exit"
    /\ exit_status' = <<1>>

\* lines 24-27: the rank check.
CheckRank ==
    /\ pc = "rank"
    /\ IF RankRejected(args.rank)
       THEN /\ stdout' = <<"Factorization rank must be at least 10! Exiting.">>
            /\ Die
       ELSE /\ pc' = "open"
            /\ UNCHANGED <<stdout, exit_status>>
    /\ UNCHANGED <<args, imzb, raised, opened, mz_axis, started, partial, order,
                   image_intensities, bright_images_pos, x, cols, H, R, reports, W,
                   H_full, orig_img, noise_stats, min_intensities, output>>

\* lines 29-34: the store is opened and the mass range asserted.
OpenStore ==
    /\ pc = "open"
    /\ opened' = TRUE
    /\ IF ~(imzb.min_mz - 1 > 0)
       THEN raised' = "assert mz_range[0] > 0" /\ Die
       ELSE IF ~(imzb.max_mz + 1 > 10)
       THEN raised' = "assert mz_range[1] > 1" /\ Die
       ELSE pc' = "axis" /\ UNCHANGED <<raised, exit_status>>
    /\ UNCHANGED <<args, imzb, stdout, mz_axis, started, partial, order,
                   image_intensities, bright_images_pos, x, cols, H, R, reports, W,
                   H_full, orig_img, noise_stats, min_intensities, output>>

\* lines 36-62: the axis is generated and the task graph built; no chunk is
\* computed yet.
GenerateAxis ==
    /\ pc = "axis"
    /\ mz_axis' = generate_mz_axis(imzb)
    /\ pc' = "sum"
    /\ UNCHANGED <<args, imzb, exit_status, raised, stdout, opened, started, partial,
                   order, image_intensities, bright_images_pos, x, cols, H, R, reports,
                   W, H_full, orig_img, noise_stats, min_intensities, output>>

\* line 63, compute(): a worker takes the task of chunk c.
ChunkStart(c) ==
    /\ pc = "sum"
    /\ c \notin started
    /\ started' = started \cup {c}
    /\ UNCHANGED <<args, imzb, pc, exit_status, raised, stdout, opened, mz_axis,
                   partial, order, image_intensities, bright_images_pos, x, cols, H, R,
                   reports, W, H_full, orig_img, noise_stats, min_intensities, output>>

\* line 63, compute(): the task of chunk c finishes: get_mz_images on the
\* chunk of the axis, summed per bin.
ChunkFinish(c) ==
    /\ pc = "sum"
    /\ c \in started
    /\ c \notin DOMAIN partial
    /\ partial' = [d \in DOMAIN partial \cup {c} |->
                      IF d = c THEN ChunkSum(imzb, mz_axis_chunks[c]) ELSE partial[d]]
    /\ order' = Append(order, c)
    /\ UNCHANGED <<args, imzb, pc, exit_status, raised, stdout, opened, mz_axis,
                   started, image_intensities, bright_images_pos, x, cols, H, R,
                   reports, W, H_full, orig_img, noise_stats, min_intensities, output>>

\* lines 63-95: compute() returns once every chunk task has finished; the
\* bright bins are chosen and the working matrix x set up, R = x.
PickBright ==
    /\ pc = "sum"
    /\ DOMAIN partial = 1..Len(mz_axis_chunks)
    /\ image_intensities' = Gather(partial, order)
    /\ bright_images_pos' = BrightPositions(image_intensities')
    /\ x' = get_mz_images(imzb, [k \in 1..Len(bright_images_pos') |->
                                    mz_axis[bright_images_pos'[k]]])
    /\ R' = x'
    /\ pc' = "select"
    /\ UNCHANGED <<args, imzb, exit_status, raised, stdout, opened, mz_axis, started,
                   partial, order, cols, H, reports, W, H_full, orig_img, noise_stats,
                   min_intensities, output>>

\* the columns np.argmax can return in this iteration, one per value of
\* p = da.random.random(x.shape[0], ...).
BestColumns ==
    IF pc = "select" /\ SelectionContinues(cols, r)
    THEN LET sums == ColumnSums(R, x)
         IN  {ArgMax(Exclude(Scores(sums, x, p), cols)) : p \in Probes}
    ELSE {}

\* lines 96-113: one iteration of the XRay loop, best_col the column picked
\* under the probe drawn.
SelectColumn(best_col) ==
    /\ pc = "select"
    /\ SelectionContinues(cols, r)
    /\ IF AlreadySelected(best_col, cols)
       THEN /\ raised' = "assert best_col not in cols"
            /\ Die
            /\ UNCHANGED <<cols, H, R, reports>>
       ELSE /\ cols' = Append(cols, best_col)
            /\ H' = nnls_frob(x, Columns(x, cols'))
            /\ R' = Residual(x, Columns(x, cols'), H')
            /\ reports' =
                   IF Len(cols') > 0 /\ Len(cols') % ReportEvery = 0
                   THEN Append(reports, [picked |-> Len(cols'),
                                         residual |-> SquaredNorm(R'),
                                         total |-> SquaredNorm(x)])
                   ELSE reports
            /\ UNCHANGED <<pc, exit_status, raised>>
    /\ UNCHANGED <<args, imzb, stdout, opened, mz_axis, started, partial, order,
                   image_intensities, bright_images_pos, x, W, H_full, orig_img,
                   noise_stats, min_intensities, output>>

\* lines 115-129: the basis W, the projection of every bin on it, and the
\* empty noise statistics.
Project ==
    /\ pc = "select"
    /\ ~SelectionContinues(cols, r)
    /\ W' = Columns(x, cols)
    /\ H_full' = nnls_frob(get_mz_images(imzb, mz_axis), W')
    /\ min_intensities' = [pix \in 1..(imzb.height * imzb.width) |-> Infinite]
    /\ pc' = "noise"
    /\ UNCHANGED <<args, imzb, exit_status, raised, stdout, opened, mz_axis, started,
                   partial, order, image_intensities, bright_images_pos, x, cols, H, R,
                   reports, orig_img, noise_stats, output>>

\* lines 131-154: the noise pass over the next bin of the axis.
NoiseStep ==
    /\ pc = "noise"
    /\ ~NoiseFinished(noise_stats, mz_axis)
    /\ LET i          == Len(noise_stats.prob) + 1
           approx_img == MatVec(W, H_full[i])
           entry      == NoiseEntry([pix \in 1..Len(approx_img) |->
                                        orig_img'[pix] - approx_img[pix]])
       IN  /\ orig_img' = OrigImage(imzb, mz_axis[i])
           /\ min_intensities' = UpdateMin(min_intensities, orig_img')
           /\ noise_stats' =
                  [prob        |-> Append(noise_stats.prob, entry.prob),
                   sqrt_median |-> Append(noise_stats.sqrt_median, entry.sqrt_median),
                   sqrt_std    |-> Append(noise_stats.sqrt_std, entry.sqrt_std)]
    /\ UNCHANGED <<args, imzb, pc, exit_status, raised, stdout, opened, mz_axis,
                   started, partial, order, image_intensities, bright_images_pos, x,
                   cols, H, R, reports, W, H_full, output>>

\* lines 157-163: the archive is written and the script ends.
Save ==
    /\ pc = "noise"
    /\ NoiseFinished(noise_stats, mz_axis)
    /\ output' = <<[W |-> W, H |-> H_full, mz_axis |-> mz_axis,
                    shape |-> <<imzb.height, imzb.width>>,
                    noise_prob |-> noise_stats.prob,
                    noise_sqrt_avg |-> noise_stats.sqrt_median,
                    noise_sqrt_std |-> noise_stats.sqrt_std,
                    min_intensities |-> min_intensities]>>
    /\ pc' = "exit"
    /\ exit_status' = <<0>>
    /\ UNCHANGED <<args, imzb, raised, stdout, opened, mz_axis, started, partial,
                   order, image_intensities, bright_images_pos, x, cols, H, R, reports,
                   W, H_full, orig_img, noise_stats, min_intensities>>

Next ==
    \/ CheckRank
    \/ OpenStore
    \/ GenerateAxis
    \/ \E c \in 1..Len(mz_axis_chunks) : ChunkStart(c)
    \/ \E c \in 1..Len(mz_axis_chunks) : ChunkFinish(c)
    \/ PickBright
    \/ \E best_col \in BestColumns : SelectColumn(best_col)
    \/ Project
    \/ NoiseStep
    \/ Save

Spec == Init /\ [][Next]_vars

\* ---------------------------------------------------------------- claims

\* the selection loop has been left with the loop condition false.
SelectionFinished == pc = "noise" \/ (pc = "exit" /\ exit_status = <<0>>)

Distinct(s) == \A j, k \in 1..Len(s) : j # k => s[j] # s[k]

IsPrefix(s, t) == Len(s) <= Len(t) /\ \A k \in 1..Len(s) : s[k] = t[k]

\* C1: once column selection has finished, cols holds exactly r pairwise
\* distinct columns; while it runs cols never holds a column twice nor more
\* than r columns, a residual report has been printed at every multiple of 5
\* reached, and every iteration that stays in the loop appends exactly one
\* column to cols.
C1_SelectsExactlyRank ==
    /\ [](/\ SelectionFinished => Len(cols) = r /\ Distinct(cols)
          /\ pc = "select" =>
                /\ Len(cols) <= r
                /\ Distinct(cols)
                /\ Len(reports) = Len(cols) \div ReportEvery
                /\ \A k \in 1..Len(reports) : reports[k].picked = ReportEvery * k)
    /\ [][pc = "select" /\ pc' = "select" =>
             Len(cols') = Len(cols) + 1 /\ IsPrefix(cols, cols')]_vars

\* C1 witness: selection finished with r columns although the residual
\* reported after 5 columns was already zero.
C1_Witness ==
    /\ SelectionFinished
    /\ Len(cols) = r
    /\ Len(reports) >= 2
    /\ reports[1].residual = 0
    /\ reports[1].total > 0

\* C2: the assertion "best_col not in cols" never fails.
C2_NeverRepicked == raised # "assert best_col not in cols"

\* C3: a rank below 10 ends the process at the rank check with status 1 and
\* the error message, with the store not opened, no axis, no chunk task
\* started or finished and no output; a rank of at least 10 never prints the
\* message, and a process that has ended with such a rank had opened the
\* store.
C3_RankFloor ==
    /\ (args.rank < RankFloor /\ pc # "rank") =>
          /\ pc = "exit"
          /\ exit_status = <<1>>
          /\ stdout # <<>>
          /\ raised = ""
          /\ ~opened
          /\ mz_axis = <<>>
          /\ started = {}
          /\ partial = <<>>
          /\ image_intensities = <<>>
          /\ output = <<>>
    /\ args.rank >= RankFloor =>
          /\ stdout = <<>>
          /\ pc \notin {"rank", "open"} => opened

\* C3 witness: a process that ended at the rank check.
C3_Witness == args.rank < RankFloor /\ pc = "exit" /\ exit_status = <<1>>

\* C5: the archive exists only when selection, the projection of every bin
\* and the noise pass over every bin are complete and nothing was raised; a
\* failed assertion has ended the process with status 1, nothing runs after
\* it, and no archive exists.
C5_OutputOnlyWhenComplete ==
    /\ output # <<>> =>
          /\ Len(cols) = r
          /\ W = Columns(x, cols)
          /\ Len(H_full) = Len(mz_axis)
          /\ Len(noise_stats.prob) = Len(mz_axis)
          /\ Len(noise_stats.sqrt_median) = Len(mz_axis)
          /\ Len(noise_stats.sqrt_std) = Len(mz_axis)
          /\ raised = ""
          /\ exit_status = <<0>>
    /\ raised # "" =>
          /\ pc = "exit"
          /\ exit_status = <<1>>
          /\ output = <<>>
          /\ ~ENABLED Next

\* C5 witness: an archive written after a noise pass over more than one chunk
\* of bins.
C5_Witness == output # <<>> /\ Len(output[1].noise_prob) = K + 1

\* the run of the scenario of C4: three bins, rank 10.
ThreeBinsRankTen == Len(imzb.images) = 3 /\ args.rank = 10

Aggregated == pc = "exit" /\ output # <<>>

RECURSIVE LeastOf(_)
\* the least element of a non-empty finite set of integers.
LeastOf(S) ==
    LET v == CHOOSE e \in S : TRUE
    IN  IF S = {v} THEN v ELSE Min2(v, LeastOf(S \ {v}))

\* min_intensities as the least positive value, per pixel, of the images
\* img(b) of the bins b of the axis: +infinity where no image is positive.
LeastPositive(img(_)) ==
    [pix \in 1..NPix |->
        LET positive == {img(b)[pix] : b \in 1..Len(mz_axis)} \ (-1..0)
        IN  IF positive = {} THEN Infinite ELSE Finite(LeastOf(positive))]

\* bin b's image as get_mz_images cleans it (both clamps).
FullyCleaned(b) == ClampPercentile(ClampNegative(imzb.images[b]))

\* bin b's image with only the negative values clamped to 0.
NegativeClamped(b) == [pix \in 1..NPix |-> Percent * Max2(imzb.images[b][pix], 0)]

LastBin == Len(noise_stats.prob)

RowOfLastBin ==
    x[CHOOSE j \in 1..Len(bright_images_pos) : bright_images_pos[j] = LastBin]

\* C7 as stated: the image the noise pass subtracts the reconstruction from
\* is the bin's row of the matrix that was factorized.
C7_SameCleaning == orig_img # <<>> => orig_img = RowOfLastBin

\* C7 amended: the noise pass clamps only the negative values to 0; the
\* bin's row of the factorized matrix is that image with the values above
\* its 99th percentile lowered to the percentile, so the two agree exactly
\* where no pixel exceeds the percentile.
C7_NegativeClampOnly ==
    orig_img # <<>> =>
        LET raw  == imzb.images[LastBin]
            perc == Percentile(ClampNegative(raw))
        IN  \A pix \in 1..NPix :
                /\ orig_img[pix] = Percent * Max2(raw[pix], 0)
                /\ RowOfLastBin[pix] = Min2(orig_img[pix], perc)

\* C7 witness: the noise pass fetched an image with a pixel above its 99th
\* percentile, which the factorized row holds clamped.
C7_Witness ==
    /\ orig_img # <<>>
    /\ \E pix \in 1..NPix : orig_img[pix] > RowOfLastBin[pix]

\* the difference the noise pass took for the bin it processed last.
LastDiff ==
    LET approx_img == MatVec(W, H_full[LastBin])
    IN  [pix \in 1..NPix |->
            Percent * Max2(imzb.images[LastBin][pix], 0) - approx_img[pix]]

\* C8: the three noise sequences always have the same length, at most the
\* number of bins; the entry of the bin processed last has probability
\* (number of pixels with diff > 0) / (height * width), between 0 and 1, which
\* is 0 exactly when diff <= 0 at every pixel, and then median and std are 0;
\* every step of the noise pass appends exactly one entry to each sequence
\* and leaves the earlier entries as they were.
C8_NoiseEntries ==
    /\ [](/\ Len(noise_stats.sqrt_median) = Len(noise_stats.prob)
          /\ Len(noise_stats.sqrt_std) = Len(noise_stats.prob)
          /\ Len(noise_stats.prob) <= Len(mz_axis)
          /\ LastBin > 0 =>
                LET prob == noise_stats.prob[LastBin]
                IN  /\ prob.num = Cardinality({pix \in 1..NPix : LastDiff[pix] > 0})
                    /\ prob.den = imzb.height * imzb.width
                    /\ 0 <= prob.num /\ prob.num <= prob.den
                    /\ prob.num = 0 <=> \A pix \in 1..NPix : LastDiff[pix] <= 0
                    /\ prob.num = 0 =>
                          /\ noise_stats.sqrt_median[LastBin] = 0
                          /\ noise_stats.sqrt_std[LastBin] = 0)
    /\ [][noise_stats' # noise_stats =>
             /\ Len(noise_stats'.prob) = Len(noise_stats.prob) + 1
             /\ IsPrefix(noise_stats.prob, noise_stats'.prob)
             /\ IsPrefix(noise_stats.sqrt_median, noise_stats'.sqrt_median)
             /\ IsPrefix(noise_stats.sqrt_std, noise_stats'.sqrt_std)]_vars

\* C8 witness: the noise pass is past a bin with probability 0 and its last
\* bin has a positive probability, a positive median, and a pixel whose diff
\* is exactly 0.
C8_Witness ==
    /\ LastBin > 1
    /\ \E k \in 1..(LastBin - 1) :
           noise_stats.prob[k].num = 0 /\ noise_stats.sqrt_median[k] = 0
    /\ noise_stats.prob[LastBin].num > 0
    /\ noise_stats.sqrt_median[LastBin] > 0
    /\ \E pix \in 1..NPix : LastDiff[pix] = 0

\* C9: a process run on a single bin whose image is entirely zero, with a
\* rank the rank check accepts and a mass range that passes the assertions,
\* ends having written noise_prob = 0, sqrt_avg = 0 and sqrt_std = 0 for the
\* bin.
C9_SingleZeroBin ==
    (/\ Len(imzb.images) = 1
     /\ IsZero(imzb.images[1])
     /\ args.rank >= RankFloor
     /\ imzb.min_mz >= 10
     /\ pc = "exit") =>
        /\ output # <<>>
        /\ output[1].noise_prob = <<[num |-> 0, den |-> NPix]>>
        /\ output[1].noise_sqrt_avg = <<0>>
        /\ output[1].noise_sqrt_std = <<0>>

\* the per-bin sums of the cleaned images, computed bin by bin.
ReferenceIntensities ==
    [b \in 1..Len(mz_axis) |-> Sum(FullyCleaned(mz_axis[b][1]))]

\* C10: a finished chunk task holds the sums of the images of its own chunk
\* of the axis, whatever else has started or finished; image_intensities is
\* set only once every chunk task has finished, and then it and
\* bright_images_pos are what the bin-by-bin computation gives, whatever the
\* order the tasks finished in.
C10_ChunkOrderIndependent ==
    /\ pc = "sum" =>
          /\ image_intensities = <<>>
          /\ \A c \in DOMAIN partial :
                 partial[c] = [n \in 1..Len(mz_axis_chunks[c]) |->
                                  ReferenceIntensities[(c - 1) * K + n]]
    /\ (pc = "select" /\ cols = <<>>) =>
          /\ DOMAIN partial = 1..Len(mz_axis_chunks)
          /\ Len(order) = Len(mz_axis_chunks)
          /\ image_intensities = ReferenceIntensities
          /\ bright_images_pos = BrightPositions(ReferenceIntensities)
    /\ image_intensities # <<>> => DOMAIN partial = 1..Len(mz_axis_chunks)

\* C10 witness: the second chunk finished before the first, the bins do not
\* all have the same intensity, and the intensities are set.
C10_Witness ==
    /\ order = <<2, 1>>
    /\ image_intensities # <<>>
    /\ image_intensities[2] # image_intensities[K + 1]

====
